---- MODULE Spec2Model ----
(***************************************************************************)
(* EMACross (examples/strategies/ema_cross.py): the per-bar decision body  *)
(* of the strategy -- warm-up checks, liquidity gate, signal, bracket      *)
(* prices, sizing, submission -- and the trailing-stop sweep.              *)
(*                                                                         *)
(* Units.  A Price is an integer number of price increments (ticks).  The  *)
(* doubles of the code (indicator values, buffers, as_double() results)    *)
(* are integers counted in 1/Sub of a tick, so Price(v, precision) is a    *)
(* real rounding of v to the tick grid.                                    *)
(***************************************************************************)
EXTENDS Integers, Sequences, FiniteSets, TLC

\* ---------------------------------------------------------------- bounds
\* Resolution of a double: Sub double units make one price increment.
Sub == 2
\* Bars have low <= high in PriceBase .. PriceBase + MaxRange (ticks).
MaxRange == 1
\* The largest average spread (double units); the other indicator readings
\* are placed around it.
MaxSpread == 1

\* ------------------------------------------------------ program constants
PriceBase == 110500
risk_bp == 10
entry_buffer_ticks == 3
commission_rate_bp_x100 == 15
hard_limit == 20000000
unit_batch_size == 10000
\* timedelta(minutes=1), in seconds.
one_minute == 60

\* Values the constructor parameter sl_atr_multiple takes (default 2.0; the
\* constructor stores any float unvalidated).
SlAtrMultiples == {2, -4}
\* Free equity figures the account reports.
Equities == {0, 1500000}
\* Outcomes of get_exchange_rate_for_account: a ValueError, or a rate.
RateOutcomes ==
    {[ok |-> FALSE, value |-> 0]} \cup {[ok |-> TRUE, value |-> v] : v \in {-1, 0, 1}}

Prices == PriceBase .. PriceBase + MaxRange
Bars == {b \in [high : Prices, low : Prices] : b.low <= b.high}
\* bar.timestamp, in seconds: two bars, the second at the minute after the
\* first.
Timestamps == {0, 60}
\* Values of the fast and of the slow EMA: below, equal, above.
FastValues == 1 .. 3
SlowValues == {2}
\* spread_analyzer.average: negative (crossed quotes), 0 (no tick averaged
\* yet), positive.  spread_analyzer.current: below and above the average.
AverageSpreads == {-1, 0, MaxSpread}
CurrentSpreads == {0, MaxSpread + 1}
\* atr.value: 0, and a liquidity ratio atr / average below 2.0 and exactly 2.0.
AtrValues == {0, MaxSpread, 2 * MaxSpread}

VARIABLES
    SL_atr_multiple,   \* self.SL_atr_multiple
    initialized,       \* indicators_initialized()
    has_ticks,         \* has_quote_ticks(symbol)
    average_spread,    \* spread_analyzer.average
    current_spread,    \* spread_analyzer.current
    working,           \* orders_working(): the working orders, as listed
    flat,              \* is_flat()
    last               \* what the last event did (history of one handler run)

vars ==
    <<SL_atr_multiple, initialized, has_ticks, average_spread, current_spread,
      working, flat, last>>

\* ------------------------------------------------------------- helpers
Max(a, b) == IF a >= b THEN a ELSE b
Min(a, b) == IF a <= b THEN a ELSE b
Abs(a) == IF a >= 0 THEN a ELSE -a

\* Price(value, precision): the double rounded to the tick grid, half to even.
Price(v) ==
    LET q == v \div Sub
        r == v % Sub
    IN  IF 2 * r < Sub THEN q
        ELSE IF 2 * r > Sub THEN q + 1
        ELSE IF q % 2 = 0 THEN q ELSE q + 1

\* Price.as_double()
as_double(p) == p * Sub

\* instrument.tick_size.as_double() * 3.0
entry_buffer == entry_buffer_ticks * Sub

\* ------------------------------------------------- collaborators (orders)
\* A working order: its client order id, the role its bracket gave it
\* (is_stop_loss looks the id up in the stop-loss registry), side, price,
\* quantity.
Order(id, role, side, price, quantity) ==
    [cl_ord_id |-> id, role |-> role, side |-> side, price |-> price,
     quantity |-> quantity]

is_stop_loss(order) == order.role = "SL"
is_sell(order) == order.side = "SELL"
is_buy(order) == order.side = "BUY"

\* FixedRiskSizer.calculate: riskAmount = equity * risk_bp / 10000;
\* riskPerUnit = |entry - stop| * rate plus the commission rate applied to the
\* notional; raw = riskAmount / riskPerUnit, rounded down to a multiple of
\* unit_batch_size and clamped to hard_limit; riskPerUnit <= 0 gives 0.
\* With a tick of 10^-5, riskPerUnit is counted in 10^-11:
risk_per_unit(entry, stop_loss, exchange_rate) ==
    exchange_rate * (Abs(entry - stop_loss) * 1000000
                     + commission_rate_bp_x100 * entry)

\* floor(n * k / d) for n, k >= 0 and d > 0, without a product above n, k * d.
MulDiv(n, k, d) == k * (n \div d) + (k * (n % d)) \div d

\* The sizer without the clamp to hard_limit.
calculate_unclamped(equity, entry, stop_loss, exchange_rate) ==
    LET rpu == risk_per_unit(entry, stop_loss, exchange_rate)
    IN  IF rpu <= 0 THEN 0
        ELSE MulDiv(equity * risk_bp * 10, 100, rpu) * unit_batch_size

\* raw / unit_batch_size = equity * risk_bp * 1000 / riskPerUnit, rounded down.
calculate(equity, entry, stop_loss, exchange_rate) ==
    LET rpu == risk_per_unit(entry, stop_loss, exchange_rate)
        batches ==
            IF rpu <= 0 THEN 0
            ELSE MulDiv(equity * risk_bp * 10, 100, rpu)
    IN  Min(batches * unit_batch_size, hard_limit)

\* The exits of a bracket are on the side opposite to its entry.
Opposite(side) == IF side = "BUY" THEN "SELL" ELSE "BUY"

\* order_factory.stop(symbol, order_side, quantity, price, time_in_force,
\* expire_time): a stop order with what it was given.
stop(order_side, quantity, price, time_in_force, expire_time) ==
    [type |-> "STOP", side |-> order_side, quantity |-> quantity,
     price |-> price, time_in_force |-> time_in_force,
     expire_time |-> expire_time]

\* order_factory.bracket(entry_order, stop_loss, take_profit): one bracket, the
\* entry order with the prices of its two exits.
bracket(entry_order, price_stop_loss, price_take_profit) ==
    [side |-> entry_order.side, quantity |-> entry_order.quantity,
     entry |-> entry_order.price,
     stop_loss |-> price_stop_loss, take_profit |-> price_take_profit,
     type |-> entry_order.type, time_in_force |-> entry_order.time_in_force,
     expire_time |-> entry_order.expire_time]

\* The order factory numbers the legs; a bracket is built only when no order
\* is working (line 156), so three ids are enough.
BracketLegs(b) ==
    [ENTRY |-> Order("O-1", "ENTRY", b.side, b.entry, b.quantity),
     SL    |-> Order("O-2", "SL", Opposite(b.side), b.stop_loss, b.quantity),
     TP    |-> Order("O-3", "TP", Opposite(b.side), b.take_profit, b.quantity)]

\* The orders in which the execution side may list the legs of a bracket.
Arrangements(roles) ==
    {s \in [1 .. Cardinality(roles) -> roles] :
        \A i, j \in 1 .. Cardinality(roles) : i /= j => s[i] /= s[j]}

BracketArrangements == Arrangements({"ENTRY", "SL", "TP"})

\* submit_bracket_order: accepted, the legs become working orders, listed in
\* the order `arr`; rejected, nothing changes.
submit_bracket_order(orders, b, accepted, arr) ==
    IF accepted
    THEN orders \o [i \in 1 .. Len(arr) |-> BracketLegs(b)[arr[i]]]
    ELSE orders

\* modify_order(order, quantity, price): accepted, the order carries the new
\* quantity and price; rejected, it is unchanged.
modify_order(order, quantity, price, accepted) ==
    IF accepted
    THEN [order EXCEPT !.quantity = quantity, !.price = price]
    ELSE order

\* ----------------------------------------------------------- the strategy
None == <<>>
Some(x) == <<x>>

\* WarmedUp without the indicators_initialized() return.
WarmedUpIgnoringIndicators(inited, ticks, avg) == ticks /\ avg /= 0

\* on_bar, lines 125-140: the three warm-up returns.
WarmedUp(inited, ticks, avg) ==
    /\ inited          \* if not self.indicators_initialized(): return
    /\ ticks           \* if not self.has_quote_ticks(self.symbol): return
    /\ avg /= 0        \* if average_spread == 0.0: return

\* The comparison of line 147 as "greater than 2.0".
LiquidityStrict(atr, avg) ==
    IF avg > 0 THEN atr > 2 * avg ELSE atr < 2 * avg

\* on_bar, lines 146-147: liquidity_ratio = atr.value / average_spread >= 2.0
\* (average_spread is not 0 here; a division by a negative flips the order).
LiquidityOK(atr, avg) ==
    IF avg > 0 THEN atr >= 2 * avg ELSE atr <= 2 * avg

\* Line 156 without the orders_working_count() test.
FlatOnly(orders, isFlat) == isFlat

\* _check_signal, line 156.
NoActiveOrPending(orders, isFlat) == Len(orders) = 0 /\ isFlat

\* Lines 158-162 with the tie given to the SELL branch.
SignalSideTieSells(fast, slow) ==
    IF fast > slow THEN "BUY"
    ELSE IF fast <= slow THEN "SELL"
    ELSE "NONE"

\* _check_signal, lines 158-162.
SignalSide(fast, slow) ==
    IF fast >= slow THEN "BUY"
    ELSE IF fast < slow THEN "SELL"
    ELSE "NONE"

\* Lines 165-169 with the spread buffer left out of the entry price.
LongPricesWithoutSpread(bar, sl_buffer, spread_buffer) ==
    LET price_entry == Price(as_double(bar.high) + entry_buffer)
        price_stop_loss == Price(as_double(bar.low) - sl_buffer)
        risk == as_double(price_entry - price_stop_loss)
    IN  [side |-> "BUY", price_entry |-> price_entry,
         price_stop_loss |-> price_stop_loss,
         price_take_profit |-> Price(as_double(price_entry) + risk)]

\* _enter_long, lines 165-169, and _enter_short, lines 218-222.
LongPrices(bar, sl_buffer, spread_buffer) ==
    LET price_entry == Price(as_double(bar.high) + entry_buffer + spread_buffer)
        price_stop_loss == Price(as_double(bar.low) - sl_buffer)
        risk == as_double(price_entry - price_stop_loss)
    IN  [side |-> "BUY", price_entry |-> price_entry,
         price_stop_loss |-> price_stop_loss,
         price_take_profit |-> Price(as_double(price_entry) + risk)]

ShortPrices(bar, sl_buffer, spread_buffer) ==
    LET price_entry == Price(as_double(bar.low) - entry_buffer)
        price_stop_loss == Price(as_double(bar.high) + sl_buffer + spread_buffer)
        risk == as_double(price_stop_loss) - as_double(price_entry)
    IN  [side |-> "SELL", price_entry |-> price_entry,
         price_stop_loss |-> price_stop_loss,
         price_take_profit |-> Price(as_double(price_entry) - risk)]

\* The lookup with 1.0 as the value a ValueError leaves behind.
ExchangeRateDefaultOne(outcome) == IF outcome.ok THEN outcome.value ELSE 1

\* Lines 172-179 and 225-232: exchange_rate = 0.0, overwritten by the lookup
\* unless it raises ValueError.
ExchangeRate(outcome) == IF outcome.ok THEN outcome.value ELSE 0

\* Lines 181 and 234: if exchange_rate == 0.0: return
RateUsable(exchange_rate) == exchange_rate /= 0

\* Lines 196 and 249 with the return dropped.
AnySizeUsable(position_size) == TRUE

\* Lines 196 and 249: if position_size == 0: return
SizeUsable(position_size) == position_size /= 0

\* The entry order of lines 200-207 with the expiry at the bar's timestamp.
entry_order_expiring_at_bar(order_side, position_size, price_entry, timestamp) ==
    stop(order_side, position_size, price_entry, "GTD", timestamp)

\* Lines 200-207 and 253-260: the entry order, a stop order Good-Till-Date
\* that expires one minute after the bar's timestamp.
entry_order(order_side, position_size, price_entry, timestamp) ==
    stop(order_side, position_size, price_entry, "GTD", timestamp + one_minute)

\* The rest of _enter_long / _enter_short, lines 171-215 and 224-268, from the
\* prices on: what the entry attempt looked up, whether it sized, and the
\* bracket it handed to submit_bracket_order, if any.
Enter(prices, timestamp, outcome, equity) ==
    LET exchange_rate == ExchangeRate(outcome)
        position_size ==
            calculate(equity, prices.price_entry, prices.price_stop_loss,
                      exchange_rate)
    IN  IF ~RateUsable(exchange_rate)
        THEN [prices |-> prices, lookup |-> outcome, sized |-> None,
              bracket |-> None]
        ELSE IF ~SizeUsable(position_size)
        THEN [prices |-> prices, lookup |-> outcome,
              sized |-> Some([exchange_rate |-> exchange_rate,
                              position_size |-> position_size]),
              bracket |-> None]
        ELSE [prices |-> prices, lookup |-> outcome,
              sized |-> Some([exchange_rate |-> exchange_rate,
                              position_size |-> position_size]),
              bracket |-> Some(bracket(entry_order(prices.side, position_size,
                                                   prices.price_entry,
                                                   timestamp),
                                       prices.price_stop_loss,
                                       prices.price_take_profit))]

\* bar is the bar's prices, timestamp its bar.timestamp (read at lines 206 and
\* 259 only).
enter_long(bar, timestamp, sl_buffer, spread_buffer, outcome, equity) ==
    Enter(LongPrices(bar, sl_buffer, spread_buffer), timestamp, outcome, equity)

enter_short(bar, timestamp, sl_buffer, spread_buffer, outcome, equity) ==
    Enter(ShortPrices(bar, sl_buffer, spread_buffer), timestamp, outcome, equity)

\* Lines 277 and 282 with the spread buffer left out of the BUY-side candidate.
CandidateWithoutSpread(order, bar, sl_buffer, spread_buffer) ==
    IF is_sell(order)
    THEN Price(as_double(bar.low) - sl_buffer)
    ELSE Price(as_double(bar.high) + sl_buffer)

\* _check_trailing_stops, lines 275-284: the candidate price of a stop-loss
\* leg and the test that lets it replace the leg's price.
Candidate(order, bar, sl_buffer, spread_buffer) ==
    IF is_sell(order)
    THEN Price(as_double(bar.low) - sl_buffer)
    ELSE Price(as_double(bar.high) + sl_buffer + spread_buffer)

\* The comparisons of lines 278 and 283 as "at or beyond" (ge / le).
TightensOrEqual(order, temp_price) ==
    IF is_sell(order) THEN temp_price >= order.price
    ELSE IF is_buy(order) THEN temp_price <= order.price
    ELSE FALSE

\* The comparisons of lines 278 and 283 as "differs from".
Moves(order, temp_price) == temp_price /= order.price

Tightens(order, temp_price) ==
    IF is_sell(order) THEN temp_price > order.price    \* temp_price.gt(order.price)
    ELSE IF is_buy(order) THEN temp_price < order.price \* temp_price.lt(order.price)
    ELSE FALSE

\* The call of lines 279 and 284 with its last two arguments exchanged.
modify_arguments_exchanged(order, temp_price) ==
    [cl_ord_id |-> order.cl_ord_id, quantity |-> temp_price,
     price |-> order.quantity]

\* Lines 279 and 284: self.modify_order(order, order.quantity, temp_price),
\* the arguments of the call.
modify_arguments(order, temp_price) ==
    [cl_ord_id |-> order.cl_ord_id, quantity |-> order.quantity,
     price |-> temp_price]

\* Line 215 / 268 followed by a second call when the first is rejected.
submit_calls_retrying(accepted) == IF accepted THEN 1 ELSE 2

\* Lines 215 and 268: self.submit_bracket_order(bracket_order) is called once
\* and its outcome is not looked at: the number of calls made.
submit_calls(accepted) == 1

\* Lines 279 and 284: self.modify_order(...) is called once for the order and
\* its outcome is not looked at: the number of calls made.
modify_calls(accepted) == 1

\* What the loop does at a working order that is not a stop-loss leg
\* (lines 272-273: return): TRUE ends the sweep, FALSE goes on to the next.
NonStopEndsSweep == TRUE

\* _check_trailing_stops, lines 270-284.  The sweep from the i-th working
\* order on; acc carries the orders as modified so far, the ids evaluated and
\* the modify requests issued, each with the answer it got, and the number of
\* modify_order calls made.
RECURSIVE TrailFrom(_, _, _, _, _, _)
TrailFrom(i, acc, bar, sl_buffer, spread_buffer, modAccepted) ==
    IF i > Len(acc.orders) THEN acc
    ELSE
        LET order == acc.orders[i]
            temp_price == Candidate(order, bar, sl_buffer, spread_buffer)
        IN  IF ~is_stop_loss(order)
            THEN IF NonStopEndsSweep THEN acc
                 ELSE TrailFrom(i + 1, acc, bar, sl_buffer, spread_buffer,
                                modAccepted)
            ELSE IF Tightens(order, temp_price)
            THEN LET request == modify_arguments(order, temp_price)
                 IN  TrailFrom(i + 1,
                     [orders |-> [acc.orders EXCEPT ![i] =
                                    modify_order(order, request.quantity,
                                                 request.price, modAccepted)],
                      evaluated |-> acc.evaluated \cup {order.cl_ord_id},
                      calls |-> acc.calls + modify_calls(modAccepted),
                      requests |-> acc.requests \cup
                                    {[cl_ord_id |-> request.cl_ord_id,
                                      quantity |-> request.quantity,
                                      price |-> request.price,
                                      accepted |-> modAccepted]}],
                     bar, sl_buffer, spread_buffer, modAccepted)
            ELSE TrailFrom(i + 1,
                     [acc EXCEPT !.evaluated = @ \cup {order.cl_ord_id}],
                     bar, sl_buffer, spread_buffer, modAccepted)

check_trailing_stops(orders, bar, sl_buffer, spread_buffer, modAccepted) ==
    TrailFrom(1, [orders |-> orders, evaluated |-> {}, calls |-> 0,
                  requests |-> {}],
              bar, sl_buffer, spread_buffer, modAccepted)

\* _check_signal, lines 155-162: the entry attempt made, if any.
check_signal(orders, isFlat, fast, slow, bar, timestamp, sl_buffer, spread_buffer, outcome, equity) ==
    IF NoActiveOrPending(orders, isFlat)
    THEN IF SignalSide(fast, slow) = "BUY"
         THEN Some(enter_long(bar, timestamp, sl_buffer, spread_buffer, outcome, equity))
         ELSE IF SignalSide(fast, slow) = "SELL"
         THEN Some(enter_short(bar, timestamp, sl_buffer, spread_buffer, outcome, equity))
         ELSE None
    ELSE None

\* Line 153 moved into the else branch of the liquidity check.
SweepRunsWhenIlliquid(signalChecked) == ~signalChecked

\* on_bar, line 153: the sweep is called after the if/else of the liquidity
\* check, whatever branch was taken.
SweepRuns(signalChecked) == TRUE

\* ------------------------------------------------------------ the history
\* What the last event did.  For a bar: whether it got past the warm-up
\* returns, the bar, the ATR reading and the stop buffer computed from it (the
\* spread buffer is max(average_spread, current_spread), which a bar leaves
\* alone), whether _check_signal was called, the EMA values it compared, the entry
\* attempt, the bracket handed to submit_bracket_order, how many times the
\* sweep ran, the working orders as orders_working() listed them to it, the
\* orders it evaluated and the modify requests it issued, and the numbers of
\* submit_bracket_order and of modify_order calls made.
Quiet(event) ==
    [event |-> event, processed |-> FALSE, bar |-> None, atr |-> 0,
     sl_buffer |-> 0,
     signal_checked |-> FALSE, emas |-> None, timestamp |-> None,
     attempt |-> None,
     submitted |-> None, submit_calls |-> 0, sweeps |-> 0, listed |-> <<>>,
     evaluated |-> {}, requests |-> {}, modify_calls |-> 0]

\* ---------------------------------------------------------------- actions
Init ==
    /\ SL_atr_multiple \in SlAtrMultiples
    /\ initialized = FALSE
    /\ has_ticks = FALSE
    /\ average_spread = 0
    /\ current_spread = 0
    /\ working = <<>>
    /\ flat = TRUE
    /\ last = Quiet("start")

\* A quote tick: the registered spread analyzer is updated (line 94);
\* on_quote_tick itself does nothing (lines 108-114).
OnQuoteTick ==
    \E avg \in AverageSpreads, cur \in CurrentSpreads :
        /\ has_ticks' = TRUE
        /\ average_spread' = avg
        /\ current_spread' = cur
        /\ last' = Quiet("tick")
        /\ UNCHANGED <<SL_atr_multiple, initialized, working, flat>>

\* A bar: the registered indicators are updated (lines 95-97), then on_bar
\* runs, lines 116-153.  The EMA values, the exchange-rate lookup and the
\* equity are read only on the path that reads them in the code, and so is
\* the bar's timestamp (read when the entry order is built); the outcome of a
\* submit or a modify exists only if the request is made.  (attempt and swept
\* are bound by \E over a one-element set: each is computed once.)
OnBar ==
    \E bar \in Bars, atr \in AtrValues,
       warm \in (IF initialized THEN {TRUE} ELSE BOOLEAN) :
        LET inited == initialized \/ warm
            spread_buffer == Max(average_spread, current_spread)
            sl_buffer == atr * SL_atr_multiple
            liquid == LiquidityOK(atr, average_spread)
            reads == liquid /\ NoActiveOrPending(working, flat)
        IN  /\ initialized' = inited
            /\ UNCHANGED <<SL_atr_multiple, has_ticks, average_spread,
                           current_spread, flat>>
            /\ IF ~WarmedUp(inited, has_ticks, average_spread)
               THEN /\ working' = working
                    /\ last' = Quiet("bar")
               ELSE
                 \E fast \in (IF reads THEN FastValues ELSE {2}),
                    slow \in SlowValues,
                    outcome \in (IF reads THEN RateOutcomes
                                 ELSE {[ok |-> FALSE, value |-> 0]}),
                    equity \in (IF reads THEN Equities ELSE {0}),
                    timestamp \in (IF reads THEN Timestamps ELSE {0}) :
                   \E attempt \in
                          {IF liquid
                           THEN check_signal(working, flat, fast, slow, bar,
                                             timestamp, sl_buffer,
                                             spread_buffer, outcome, equity)
                           ELSE None} :
                   LET submitted ==
                           IF attempt = None THEN None ELSE attempt[1].bracket
                   IN
                   \E accepted \in (IF submitted = None THEN {FALSE} ELSE BOOLEAN),
                      arr \in (IF submitted = None THEN {<<>>}
                               ELSE BracketArrangements) :
                     LET afterEntry ==
                             IF submitted = None THEN working
                             ELSE submit_bracket_order(working, submitted[1],
                                                       accepted, arr)
                         runs == SweepRuns(liquid)
                         Sweep(modAccepted) ==
                             IF runs
                             THEN check_trailing_stops(afterEntry, bar, sl_buffer,
                                                       spread_buffer, modAccepted)
                             ELSE [orders |-> afterEntry, evaluated |-> {},
                                   calls |-> 0, requests |-> {}]
                     IN
                     \E modAccepted \in (IF Sweep(TRUE).requests = {} THEN {TRUE}
                                         ELSE BOOLEAN) :
                       \E swept \in {Sweep(modAccepted)} :
                           /\ working' = swept.orders
                           /\ last' =
                                [event |-> "bar", processed |-> TRUE,
                                 bar |-> Some(bar), atr |-> atr,
                                 sl_buffer |-> sl_buffer,
                                 signal_checked |-> liquid,
                                 emas |-> IF reads
                                          THEN Some([fast |-> fast,
                                                     slow |-> slow])
                                          ELSE None,
                                 timestamp |-> IF submitted /= None
                                               THEN Some(timestamp)
                                               ELSE None,
                                 attempt |-> attempt, submitted |-> submitted,
                                 submit_calls |->
                                     IF submitted = None THEN 0
                                     ELSE submit_calls(accepted),
                                 modify_calls |-> swept.calls,
                                 sweeps |-> IF runs THEN 1 ELSE 0,
                                 listed |-> IF runs THEN afterEntry ELSE <<>>,
                                 evaluated |-> swept.evaluated,
                                 requests |-> swept.requests]

\* The execution side.  The entry leg is a stop order, Good-Till-Date: it
\* either triggers, opening the position, or expires, taking the bracket with
\* it.  The exits are One-Cancels-Other: one of them fills, the position is
\* flat again and the other is cancelled.
HasRole(orders, role) == \E i \in 1 .. Len(orders) : orders[i].role = role

EntryFilled ==
    /\ HasRole(working, "ENTRY")
    /\ working' = SelectSeq(working, LAMBDA o : o.role /= "ENTRY")
    /\ flat' = FALSE
    /\ last' = Quiet("entry filled")
    /\ UNCHANGED <<SL_atr_multiple, initialized, has_ticks, average_spread,
                   current_spread>>

EntryExpired ==
    /\ HasRole(working, "ENTRY")
    /\ working' = <<>>
    /\ flat' = flat
    /\ last' = Quiet("entry expired")
    /\ UNCHANGED <<SL_atr_multiple, initialized, has_ticks, average_spread,
                   current_spread>>

ExitFilled ==
    /\ ~flat
    /\ \/ HasRole(working, "SL")
       \/ HasRole(working, "TP")
    /\ working' = <<>>
    /\ flat' = TRUE
    /\ last' = Quiet("exit filled")
    /\ UNCHANGED <<SL_atr_multiple, initialized, has_ticks, average_spread,
                   current_spread>>

Next ==
    \/ OnQuoteTick
    \/ OnBar
    \/ EntryFilled
    \/ EntryExpired
    \/ ExitFilled

Spec == Init /\ [][Next]_vars

\* ------------------------------------------------------------- properties
OnBarRan == last.event = "bar"
Attempted == OnBarRan /\ last.attempt /= None
Attempt == last.attempt[1]
Submitted == OnBarRan /\ last.submitted /= None
SubmittedBracket == last.submitted[1]

\* The risk of the bracket prices of an entry attempt: entry minus stop-loss
\* for BUY, stop-loss minus entry for SELL.
RiskOf(prices) ==
    IF prices.side = "BUY"
    THEN prices.price_entry - prices.price_stop_loss
    ELSE prices.price_stop_loss - prices.price_entry

\* C1: every bracket handed to submit_bracket_order has its stop-loss and its
\* take-profit on opposite sides of the entry (stop below and target above for
\* BUY, the reverse for SELL), the target as far from the entry as the stop,
\* within one price increment.
C1_BracketInvariant ==
    Submitted =>
        LET b == SubmittedBracket
        IN  /\ b.side = "BUY" => b.stop_loss < b.entry /\ b.entry < b.take_profit
            /\ b.side = "SELL" => b.take_profit < b.entry /\ b.entry < b.stop_loss
            /\ Abs(Abs(b.take_profit - b.entry) - Abs(b.entry - b.stop_loss)) <= 1

\* C2: in every step, a stop-loss leg that stays working keeps or raises its
\* price if it is a SELL-side leg, keeps or lowers it if it is a BUY-side leg.
StopNotLoosened(before, after) ==
    /\ is_sell(before) => after.price >= before.price
    /\ is_buy(before) => after.price <= before.price

C2_StopNeverLoosens ==
    [][\A i \in DOMAIN working, j \in DOMAIN working' :
        (working[i].cl_ord_id = working'[j].cl_ord_id /\ is_stop_loss(working[i]))
            => StopNotLoosened(working[i], working'[j])]_vars

\* C2 witness: the sweep evaluated a SELL-side stop-loss leg whose candidate
\* was below its price, and the leg is still at its price.
C2_Witness ==
    /\ OnBarRan
    /\ \E i \in DOMAIN working :
        /\ is_stop_loss(working[i]) /\ is_sell(working[i])
        /\ working[i].cl_ord_id \in last.evaluated
        /\ last.requests = {}
        /\ Candidate(working[i], last.bar[1], last.sl_buffer,
                     Max(average_spread, current_spread)) < working[i].price

\* C3: on a processed bar every working stop-loss leg is evaluated against
\* its candidate, wherever the other legs are listed: so, with a position open
\* and the stop multiple positive, a stop-loss leg that its candidate would
\* tighten has its modify request; and only stop-loss legs get one.
C3_SweepSkipsNonStops ==
    (OnBarRan /\ last.processed /\ ~flat /\ SL_atr_multiple > 0) =>
        /\ \A i \in DOMAIN working :
            (/\ is_stop_loss(working[i])
             /\ Tightens(working[i],
                         Candidate(working[i], last.bar[1], last.sl_buffer,
                                   Max(average_spread, current_spread))))
                => \E r \in last.requests : r.cl_ord_id = working[i].cl_ord_id
        /\ \A r \in last.requests : \A i \in DOMAIN working :
            working[i].cl_ord_id = r.cl_ord_id => is_stop_loss(working[i])

\* C4: a bar submits a bracket only from a state that is flat with no working
\* order; so no bracket is submitted while one is working or a position is
\* open.
C4_SubmitOnlyFlatAndIdle ==
    [][(last'.event = "bar" /\ last'.submitted /= None)
        => (flat /\ Len(working) = 0)]_vars

\* C4 witness: a bracket was submitted and accepted, its legs are working.
C4_Witness == Submitted /\ Len(working) = 3 /\ flat

\* C5, as stated: a bar that finds an indicator not ready, no quote tick or an
\* average spread that is not greater than 0 produces no entry attempt, no
\* submission and no modify request, and leaves the working orders and the
\* position alone (shown with the stop multiple positive).
C5_NoOpUnlessSpreadPositive ==
    [][(last'.event = "bar" /\ SL_atr_multiple > 0
        /\ ~(initialized' /\ has_ticks' /\ average_spread' > 0))
        => /\ last'.attempt = None /\ last'.submitted = None
           /\ last'.requests = {}
           /\ working' = working /\ flat' = flat]_vars

\* C5, amended: the same with "average spread is not 0": such a bar does not
\* get past the warm-up returns, and is a no-op.
C5_NoOpUnlessWarmedUp ==
    [][(last'.event = "bar"
        /\ ~(initialized' /\ has_ticks' /\ average_spread' /= 0))
        => /\ ~last'.processed
           /\ last'.attempt = None /\ last'.submitted = None
           /\ last'.sweeps = 0 /\ last'.requests = {}
           /\ working' = working /\ flat' = flat]_vars

\* C5 witness: a bar arrived with orders working and the average spread at 0,
\* and was not processed.
C5_Witness ==
    /\ OnBarRan /\ ~last.processed
    /\ initialized /\ has_ticks /\ average_spread = 0
    /\ Len(working) > 0

\* C6: an entry attempt whose risk is not strictly positive submits no
\* bracket.
C6_NoBracketOnNonPositiveRisk ==
    (Attempted /\ RiskOf(Attempt.prices) <= 0) => last.submitted = None

\* C7: an entry attempt whose exchange-rate lookup raised does not size and
\* submits nothing; the sweep of that bar has run, and the strategy is left
\* flat with no working order, as the next bar needs it.
C7_FailedLookupSkipsEntry ==
    (Attempted /\ ~Attempt.lookup.ok)
        => /\ Attempt.sized = None
           /\ last.submitted = None
           /\ last.sweeps = 1
           /\ flat /\ Len(working) = 0

\* C7 witness: an entry attempt whose lookup raised.
C7_Witness == Attempted /\ ~Attempt.lookup.ok

\* C8: an entry attempt whose lookup returned a rate <= 0 does not call the
\* sizer and submits nothing (shown with the stop multiple positive).
C8_NoSizingOnNonPositiveRate ==
    (Attempted /\ SL_atr_multiple > 0
     /\ Attempt.lookup.ok /\ Attempt.lookup.value <= 0)
        => (Attempt.sized = None /\ last.submitted = None)

\* C9: an entry attempt sized at 0 submits nothing, and every bracket
\* submitted, and every working leg, has a quantity above 0.
C9_NoBracketOfSizeZero ==
    /\ (Attempted /\ Attempt.sized /= None /\ Attempt.sized[1].position_size = 0)
        => last.submitted = None
    /\ Submitted => SubmittedBracket.quantity > 0
    /\ \A i \in DOMAIN working : working[i].quantity > 0

\* C9 witness: an entry attempt with a positive rate that was sized at 0.
C9_Witness ==
    /\ Attempted /\ Attempt.sized /= None
    /\ Attempt.sized[1].exchange_rate > 0
    /\ Attempt.sized[1].position_size = 0

\* C10: a bar that gets past the warm-up returns runs the sweep once, whether
\* or not the signal was checked and whatever the entry attempt did.
C10_SweepRunsOnEveryProcessedBar ==
    (OnBarRan /\ initialized /\ has_ticks /\ average_spread /= 0)
        => (last.processed /\ last.sweeps = 1)

\* C10 witness: a bar on which the signal was checked and the entry attempt
\* returned without a bracket, and the sweep ran.
C10_Witness ==
    /\ OnBarRan /\ last.signal_checked
    /\ Attempted /\ Attempt.bracket = None
    /\ last.sweeps = 1

\* C11: on a processed bar _check_signal is called if and only if the
\* liquidity ratio atr / average spread is at least 2.0, a ratio of exactly
\* 2.0 included; below 2.0 the bar makes no entry attempt and submits nothing.
RatioAtLeastTwo(atr, avg) == atr * avg >= 2 * avg * avg

C11_SignalIffLiquid ==
    (OnBarRan /\ last.processed) =>
        /\ last.signal_checked <=> RatioAtLeastTwo(last.atr, average_spread)
        /\ ~RatioAtLeastTwo(last.atr, average_spread)
            => (last.attempt = None /\ last.submitted = None)

\* C11 witness: a bar with a ratio of exactly 2.0 on which an entry was
\* attempted.
C11_Witness ==
    /\ OnBarRan /\ last.processed
    /\ average_spread > 0 /\ last.atr = 2 * average_spread
    /\ last.signal_checked /\ Attempted

\* C12: whenever the sizer is called, the quantity it returns is not negative,
\* is a multiple of unit_batch_size and is at most hard_limit; and it is 0 when
\* the risk per unit is not positive.
C12_SizeIsBatchedAndLimited ==
    (Attempted /\ Attempt.sized /= None) =>
        LET q == Attempt.sized[1].position_size
            rpu == risk_per_unit(Attempt.prices.price_entry,
                                 Attempt.prices.price_stop_loss,
                                 Attempt.sized[1].exchange_rate)
        IN  /\ q >= 0
            /\ q % unit_batch_size = 0
            /\ q <= hard_limit
            /\ rpu <= 0 => q = 0

\* C12 witness: with the default stop multiple and a positive rate, the sizer
\* returned hard_limit (the quantity was clamped).
C12_Witness ==
    /\ Attempted /\ Attempt.sized /= None
    /\ SL_atr_multiple > 0
    /\ Attempt.sized[1].exchange_rate > 0
    /\ Attempt.sized[1].position_size = hard_limit

\* C13: a bar that checks the signal while flat with no working order makes
\* one entry attempt, on the BUY side if the fast EMA is at or above the slow
\* EMA (a tie included), on the SELL side if it is below.
C13_TieBuys ==
    [][(last'.event = "bar" /\ last'.signal_checked /\ flat /\ Len(working) = 0)
        => /\ last'.attempt /= None /\ last'.emas /= None
           /\ LET fast == last'.emas[1].fast
                  slow == last'.emas[1].slow
                  side == last'.attempt[1].prices.side
              IN  /\ fast >= slow => side = "BUY"
                  /\ fast < slow => side = "SELL"]_vars

\* C13 witness: equal EMA values, and a BUY bracket was submitted.
C13_Witness ==
    /\ Submitted /\ last.emas /= None
    /\ last.emas[1].fast = last.emas[1].slow
    /\ SubmittedBracket.side = "BUY"

\* C14: every bracket handed to submit_bracket_order has as its entry a stop
\* order, Good-Till-Date, expiring one minute after the timestamp of the bar
\* that triggered it, on the BUY and on the SELL side alike; and a submission
\* is of one bracket: accepted, exactly its three legs are working, the entry,
\* the stop-loss and the take-profit.
C14_EntryExpiresAMinuteAfterBar ==
    Submitted =>
        /\ SubmittedBracket.type = "STOP"
        /\ SubmittedBracket.time_in_force = "GTD"
        /\ last.timestamp /= None
        /\ SubmittedBracket.expire_time = last.timestamp[1] + 60
        /\ Len(working) \in {0, 3}
        /\ Len(working) = 3 =>
              /\ {working[i].role : i \in DOMAIN working} = {"ENTRY", "SL", "TP"}
              /\ \A i \in DOMAIN working :
                    working[i].quantity = SubmittedBracket.quantity

\* C14 witness: a SELL bracket submitted on the bar with the later timestamp,
\* its legs working.
C14_Witness ==
    /\ Submitted /\ SubmittedBracket.side = "SELL"
    /\ last.timestamp = Some(60)
    /\ Len(working) = 3

\* The legs the last sweep evaluated, by their place in the listing; the
\* candidate price of a leg on the bar of the sweep; the requests for a leg;
\* the better of a leg's price and its candidate (the higher for a SELL-side
\* leg, the lower for a BUY-side leg).
EvaluatedLegs ==
    {i \in DOMAIN last.listed : last.listed[i].cl_ord_id \in last.evaluated}

TrailCandidate(leg) ==
    IF leg.side = "SELL"
    THEN Price(last.bar[1].low * Sub - last.sl_buffer)
    ELSE Price(last.bar[1].high * Sub + last.sl_buffer
               + Max(average_spread, current_spread))

RequestsFor(leg) == {r \in last.requests : r.cl_ord_id = leg.cl_ord_id}

Better(leg, candidate) ==
    IF leg.side = "SELL" THEN Max(leg.price, candidate)
    ELSE Min(leg.price, candidate)

\* C15, as stated: a stop-loss leg the sweep evaluated gets a modify request
\* if and only if its candidate is strictly above its price (SELL side) or
\* strictly below it (BUY side), the request is for the candidate, and after
\* the sweep the price of the leg is the better of its old price and the
\* candidate (shown with the stop multiple positive).
C15_PriceIsMaxOrMin ==
    (OnBarRan /\ SL_atr_multiple > 0) =>
        \A i \in EvaluatedLegs :
            LET old == last.listed[i]
                candidate == TrailCandidate(old)
            IN  /\ RequestsFor(old) /= {} <=>
                      IF old.side = "SELL" THEN candidate > old.price
                      ELSE candidate < old.price
                /\ \A r \in RequestsFor(old) : r.price = candidate
                /\ working[i].price = Better(old, candidate)

\* C15, amended: the same, with the price after the sweep the better of the
\* two when the modification was accepted, and the old price when it was
\* rejected or none was requested.
C15_AcceptedPriceIsMaxOrMin ==
    OnBarRan =>
        \A i \in EvaluatedLegs :
            LET old == last.listed[i]
                candidate == TrailCandidate(old)
            IN  /\ RequestsFor(old) /= {} <=>
                      IF old.side = "SELL" THEN candidate > old.price
                      ELSE candidate < old.price
                /\ \A r \in RequestsFor(old) : r.price = candidate
                /\ working[i].price =
                      IF \E r \in RequestsFor(old) : r.accepted
                      THEN Better(old, candidate)
                      ELSE old.price

\* C15 witness: with the default stop multiple, a SELL-side stop-loss leg was
\* evaluated with its candidate above its price, the modification was
\* accepted and the leg is at the candidate.
C15_Witness ==
    /\ OnBarRan /\ SL_atr_multiple > 0
    /\ \E i \in EvaluatedLegs :
        /\ last.listed[i].side = "SELL"
        /\ TrailCandidate(last.listed[i]) > last.listed[i].price
        /\ \E r \in RequestsFor(last.listed[i]) : r.accepted
        /\ working[i].price = TrailCandidate(last.listed[i])

\* C16: a bar's sweep leaves the position state alone and leaves as many
\* working orders as it was given, each with its identity, role, side and
\* quantity; only a stop-loss leg changes, and only in its price; and every
\* modify request carries the quantity its leg already had.
C16_ReplacementChangesPriceOnly ==
    [][(last'.event = "bar" /\ last'.sweeps = 1)
        => /\ flat' = flat
           /\ Len(working') = Len(last'.listed)
           /\ \A i \in DOMAIN last'.listed :
                LET old == last'.listed[i]
                IN  /\ working'[i].cl_ord_id = old.cl_ord_id
                    /\ working'[i].role = old.role
                    /\ working'[i].side = old.side
                    /\ working'[i].quantity = old.quantity
                    /\ working'[i].price /= old.price => old.role = "SL"
                    /\ \A r \in last'.requests :
                          r.cl_ord_id = old.cl_ord_id
                              => r.quantity = old.quantity]_vars

\* C16 witness: a modification of a stop-loss leg was accepted, and the leg
\* has its new price and its old quantity.
C16_Witness ==
    /\ OnBarRan
    /\ \E i \in DOMAIN last.listed :
        /\ last.listed[i].role = "SL"
        /\ \E r \in last.requests :
              r.cl_ord_id = last.listed[i].cl_ord_id /\ r.accepted
        /\ working[i].price /= last.listed[i].price
        /\ working[i].quantity = last.listed[i].quantity

\* C17: the prices of an entry attempt, and of the bracket it submits, are
\* the stated ones, each rounded to the price precision: with volatility
\* buffer = ATR * stop multiple and spread buffer = max(average, current
\* spread), for BUY entry = high + 3 ticks + spread buffer, stop-loss = low -
\* volatility buffer, take-profit = entry + (entry - stop-loss); for SELL
\* entry = low - 3 ticks, stop-loss = high + volatility buffer + spread
\* buffer, take-profit = entry - (stop-loss - entry).
C17_BracketPrices ==
    Attempted =>
        LET p == Attempt.prices
            high == last.bar[1].high * Sub
            low == last.bar[1].low * Sub
            volatilityBuffer == last.atr * SL_atr_multiple
            spreadBuffer ==
                IF average_spread >= current_spread THEN average_spread
                ELSE current_spread
        IN  /\ p.side = "BUY" =>
                /\ p.price_entry = Price(high + 3 * Sub + spreadBuffer)
                /\ p.price_stop_loss = Price(low - volatilityBuffer)
                /\ p.price_take_profit =
                      p.price_entry + (p.price_entry - p.price_stop_loss)
            /\ p.side = "SELL" =>
                /\ p.price_entry = Price(low - 3 * Sub)
                /\ p.price_stop_loss =
                      Price(high + volatilityBuffer + spreadBuffer)
                /\ p.price_take_profit =
                      p.price_entry - (p.price_stop_loss - p.price_entry)
            /\ Submitted =>
                /\ SubmittedBracket.side = p.side
                /\ SubmittedBracket.entry = p.price_entry
                /\ SubmittedBracket.stop_loss = p.price_stop_loss
                /\ SubmittedBracket.take_profit = p.price_take_profit

\* C17 witness: with the default stop multiple, a BUY bracket submitted on a
\* bar with high above low while the current spread is above the average.
C17_Witness ==
    /\ Submitted /\ SL_atr_multiple > 0
    /\ SubmittedBracket.side = "BUY"
    /\ last.bar[1].high > last.bar[1].low
    /\ current_spread > average_spread

\* C18: on the bar that submits a bracket the sweep runs after the entry path
\* and is given the legs just submitted; the stop-loss leg is at the bracket's
\* stop-loss price, which is the trailing candidate of that same bar, so the
\* sweep requests no modification and the leg keeps that price.
C18_SubmittingBarLeavesNewStop ==
    Submitted =>
        /\ last.sweeps = 1
        /\ last.listed = working
        /\ last.requests = {}
        /\ \A i \in DOMAIN last.listed :
              last.listed[i].role = "SL" =>
                /\ last.listed[i].price = SubmittedBracket.stop_loss
                /\ last.listed[i].price = TrailCandidate(last.listed[i])

\* C18 witness: a SELL bracket was accepted with the spread buffer above 0,
\* and the sweep of that bar evaluated its stop-loss leg.
C18_Witness ==
    /\ Submitted /\ SubmittedBracket.side = "SELL"
    /\ Max(average_spread, current_spread) > 0
    /\ \E i \in DOMAIN working :
        /\ working[i].role = "SL"
        /\ working[i].cl_ord_id \in last.evaluated

\* C19: a bar makes at most one submit_bracket_order call, and one
\* modify_order call for each order it requests a modification of, whatever
\* the answers; no other event makes either call; and a bracket is submitted
\* only by a bar whose normal evaluation (liquidity passed) found the
\* strategy flat with no working order, after a rejected submission as after
\* anything else.
C19_NoRetry ==
    [][/\ last'.submit_calls <= 1
       /\ last'.modify_calls =
             Cardinality({r.cl_ord_id : r \in last'.requests})
       /\ last'.event /= "bar" =>
             (last'.submit_calls = 0 /\ last'.modify_calls = 0)
       /\ last'.submit_calls > 0 =>
             /\ last'.event = "bar" /\ last'.signal_checked
             /\ flat /\ Len(working) = 0]_vars

\* C19 witness: a bar submitted a bracket and the submission was rejected:
\* one call was made, nothing is working and the strategy is flat.
C19_Witness ==
    /\ Submitted /\ last.submit_calls = 1
    /\ Len(working) = 0 /\ flat

====
